---- MODULE Spec2Model ----
(***************************************************************************)
(* A model of twitch_parsing.py: the chat-log parser (read_csv), the three *)
(* message classifiers (gifted subs, subscriptions, bits), the stream      *)
(* summary, the revenue model and the batch aggregator over folders.       *)
(*                                                                         *)
(* Text is modelled character by character: a Python str is a TLA+ string, *)
(* and the regular expressions of the source are interpreted by a small    *)
(* backtracking matcher with Python's priorities (lazy .*?, greedy \d+).   *)
(***************************************************************************)
EXTENDS Integers, Sequences, FiniteSets, TLC

VARIABLES
    pc,                 \* position of the program / of the function under study
    message,            \* the message text handed to the classifiers
    nparts,             \* number of text pieces the message was assembled from
    donated_sub,        \* column "donated_sub" of the classified row
    subscription_type,  \* column "subscription_type" of the classified row
    subscription_months,\* column "subscription_months" of the classified row
    bits,               \* column "bits" of the classified row
    file_content,       \* the text of the chat-log file being written and read
    written,            \* the chat events written to the file, in file order
    df,                 \* the table of the file with its derived columns
    result,             \* what get_stream_summary returned or raised
    folders,            \* the folders given to the batch aggregator
    files,              \* the files of the current folder still to summarise
    summary,            \* the summaries of the files of the current folder
    tables,             \* the tables of the folders done
    table,              \* what the batch aggregator returned or raised
    discovered          \* the files listed so far, in the order of listing

vars == <<pc, message, nparts, donated_sub, subscription_type,
          subscription_months, bits, file_content, written, df, result,
          folders, files, summary, tables, table, discovered>>

message_vars == <<message, nparts, donated_sub, subscription_type,
                  subscription_months, bits>>
stream_vars == <<file_content, written, df, result>>
batch_vars == <<folders, files, summary, tables, table, discovered>>

(***************************************************************************)
(* Bounds of the model.                                                    *)
(***************************************************************************)
MaxSubParts == 4
MaxCheerParts == 4
MaxLines == 3
MaxCount == 2
MaxFolders == 3

(***************************************************************************)
(* Characters and strings.                                                 *)
(***************************************************************************)
None == "None"

Char(s, i) == SubSeq(s, i, i)

Digit == {"0", "1", "2", "3", "4", "5", "6", "7", "8", "9"}

Letter ==
    {"a", "b", "c", "d", "e", "f", "g", "h", "i", "j", "k", "l", "m",
     "n", "o", "p", "q", "r", "s", "t", "u", "v", "w", "x", "y", "z",
     "A", "B", "C", "D", "E", "F", "G", "H", "I", "J", "K", "L", "M",
     "N", "O", "P", "Q", "R", "S", "T", "U", "V", "W", "X", "Y", "Z"}

\* \w of the re module: letters, digits and the underscore
WordChar == Letter \cup Digit \cup {"_"}

DigitValue(c) ==
    CASE c = "0" -> 0 [] c = "1" -> 1 [] c = "2" -> 2 [] c = "3" -> 3
      [] c = "4" -> 4 [] c = "5" -> 5 [] c = "6" -> 6 [] c = "7" -> 7
      [] c = "8" -> 8 [] c = "9" -> 9

\* int(s) for a string of decimal digits
RECURSIVE int(_)
int(s) ==
    IF Len(s) = 0 THEN 0
    ELSE 10 * int(SubSeq(s, 1, Len(s) - 1)) + DigitValue(Char(s, Len(s)))

Min(S) == CHOOSE x \in S : \A y \in S : x <= y
Max(S) == CHOOSE x \in S : \A y \in S : x >= y

\* the number of consecutive characters of s from position pos that are in set
Run(s, pos, set) ==
    LET stop == {i \in pos..Len(s) : Char(s, i) \notin set}
    IN  IF stop = {} THEN Len(s) - pos + 1 ELSE Min(stop) - pos

\* the number of consecutive characters of s from position pos that are not "\n"
RunNoNewline(s, pos) ==
    LET stop == {i \in pos..Len(s) : Char(s, i) = "\n"}
    IN  IF stop = {} THEN Len(s) - pos + 1 ELSE Min(stop) - pos

(***************************************************************************)
(* Regular expressions.  A pattern is a sequence of elements:              *)
(*   Lazy     .*?      as few characters other than newline as possible    *)
(*   Lit(t)   the text t                                                   *)
(*   Dot      .      one character other than newline                    *)
(*   D1       (\d)     one digit, captured                                 *)
(*   Dn       (\d+)    as many digits as possible, at least one, captured  *)
(*   Wb       \b       a word boundary                                     *)
(***************************************************************************)
Lazy == [op |-> "lazy", text |-> ""]
Lit(t) == [op |-> "lit", text |-> t]
Dot == [op |-> "any", text |-> ""]
D1 == [op |-> "digit", text |-> ""]
Dn == [op |-> "digits", text |-> ""]
Wb == [op |-> "wb", text |-> ""]

IsWordAt(s, pos) == pos >= 1 /\ pos <= Len(s) /\ Char(s, pos) \in WordChar

\* The first match, in the backtracking order of the re module, of the
\* elements k.. of pat against s from position pos: None, or the captured
\* groups in order.
RECURSIVE MatchFrom(_, _, _, _)
MatchFrom(pat, k, s, pos) ==
    IF k > Len(pat) THEN <<>>
    ELSE
    LET e == pat[k]
        rest(p) == MatchFrom(pat, k + 1, s, p)
    IN  CASE e.op = "lit" ->
               IF /\ pos + Len(e.text) - 1 <= Len(s)
                  /\ SubSeq(s, pos, pos + Len(e.text) - 1) = e.text
               THEN rest(pos + Len(e.text))
               ELSE None
          [] e.op = "any" ->
               IF pos <= Len(s) /\ Char(s, pos) # "\n"
               THEN rest(pos + 1)
               ELSE None
          [] e.op = "digit" ->
               IF pos <= Len(s) /\ Char(s, pos) \in Digit
               THEN LET r == rest(pos + 1)
                    IN  IF r = None THEN None ELSE <<Char(s, pos)>> \o r
               ELSE None
          [] e.op = "digits" ->
               LET ok == {n \in 1..Run(s, pos, Digit) : rest(pos + n) # None}
               IN  IF ok = {} THEN None
                   ELSE <<SubSeq(s, pos, pos + Max(ok) - 1)>> \o rest(pos + Max(ok))
          [] e.op = "lazy" ->
               LET ok == {n \in 0..RunNoNewline(s, pos) : rest(pos + n) # None}
               IN  IF ok = {} THEN None ELSE rest(pos + Min(ok))
          [] e.op = "wb" ->
               IF IsWordAt(s, pos - 1) # IsWordAt(s, pos)
               THEN rest(pos)
               ELSE None

\* pattern.match(string): the match anchored at the start of the string
re_match(pat, s) == MatchFrom(pat, 1, s, 1)

\* pattern.search(string): the match at the first position that has one
re_search(pat, s) ==
    LET ok == {p \in 1..(Len(s) + 1) : MatchFrom(pat, 1, s, p) # None}
    IN  IF ok = {} THEN None ELSE MatchFrom(pat, 1, s, Min(ok))

(***************************************************************************)
(* Exceptions and tables.  A raised exception is the record                *)
(* [error |-> its type]; a DataFrame is the record [columns, rows], rows a *)
(* sequence of rows, each a sequence of the cells of the columns in order. *)
(***************************************************************************)
Raise(type) == [error |-> type]

IsError(x) == "error" \in DOMAIN x

DataFrame(rows, columns) == [columns |-> columns, rows |-> rows]

ColumnIndex(frame, name) ==
    CHOOSE c \in 1..Len(frame.columns) : frame.columns[c] = name

HasColumn(frame, name) ==
    \E c \in 1..Len(frame.columns) : frame.columns[c] = name

\* frame[name], as the sequence of the cells of the column
Column(frame, name) ==
    [i \in 1..Len(frame.rows) |-> frame.rows[i][ColumnIndex(frame, name)]]

\* frame[name] = cells: the column replaced, or added as the last column
SetColumn(frame, name, cells) ==
    IF HasColumn(frame, name)
    THEN [frame EXCEPT !.rows =
             [i \in 1..Len(frame.rows) |->
                 [frame.rows[i] EXCEPT ![ColumnIndex(frame, name)] = cells[i]]]]
    ELSE [columns |-> Append(frame.columns, name),
          rows |-> [i \in 1..Len(frame.rows) |-> Append(frame.rows[i], cells[i])]]

\* the values of a sequence, and how many cells hold a value
Values(cells) == {cells[i] : i \in 1..Len(cells)}

Count(cells, v) == Cardinality({i \in 1..Len(cells) : cells[i] = v})

RECURSIVE Sum(_)
Sum(cells) ==
    IF Len(cells) = 0 THEN 0
    ELSE cells[Len(cells)] + Sum(SubSeq(cells, 1, Len(cells) - 1))

(***************************************************************************)
(* Parse file into DataFrame.                                              *)
(***************************************************************************)
\* the lines of a text file as iteration over the open file yields them:
\* each line keeps its "\n", the last line has none when the file ends
\* without one
RECURSIVE FileLines(_)
FileLines(text) ==
    IF Len(text) = 0 THEN <<>>
    ELSE LET n == RunNoNewline(text, 1)
         IN  IF n = Len(text) THEN <<text>>
             ELSE <<SubSeq(text, 1, n + 1)>>
                      \o FileLines(SubSeq(text, n + 2, Len(text)))

\* s.split(",", maxsplit)
RECURSIVE split(_, _)
split(s, maxsplit) ==
    LET commas == {i \in 1..Len(s) : Char(s, i) = ","}
    IN  IF maxsplit = 0 \/ commas = {} THEN <<s>>
        ELSE <<SubSeq(s, 1, Min(commas) - 1)>>
                 \o split(SubSeq(s, Min(commas) + 1, Len(s)), maxsplit - 1)

Whitespace == {" ", "\t", "\n", "\r", "\f"}

\* s.strip()
strip(s) ==
    LET keep == {i \in 1..Len(s) : Char(s, i) \notin Whitespace}
    IN  IF keep = {} THEN "" ELSE SubSeq(s, Min(keep), Max(keep))

\* s[1:-2]
Slice_1_to_minus_2(s) == SubSeq(s, 2, Len(s) - 2)

UpperCase == "ABCDEFGHIJKLMNOPQRSTUVWXYZ"
LowerCase == "abcdefghijklmnopqrstuvwxyz"

LowerChar(c) ==
    IF \E i \in 1..26 : Char(UpperCase, i) = c
    THEN Char(LowerCase, CHOOSE i \in 1..26 : Char(UpperCase, i) = c)
    ELSE c

\* s.lower()
RECURSIVE lower(_)
lower(s) ==
    IF Len(s) = 0 THEN ""
    ELSE lower(SubSeq(s, 1, Len(s) - 1)) \o LowerChar(Char(s, Len(s)))

IsNumeric(s) == Len(s) > 0 /\ \A i \in 1..Len(s) : Char(s, i) \in Digit

\* pd.DataFrame(lines, columns=headers) for a list of lists: the rows are
\* padded with None to the longest row, which must have as many cells as
\* there are columns
NewDataFrame(lines, headers) ==
    LET width == Max({Len(lines[i]) : i \in 1..Len(lines)})
    IN  IF Len(lines) = 0 THEN DataFrame(<<>>, headers)
        ELSE IF width # Len(headers) THEN Raise("ValueError")
        ELSE DataFrame(
                 [i \in 1..Len(lines) |->
                     [c \in 1..width |->
                         IF c <= Len(lines[i]) THEN lines[i][c] ELSE None]],
                 headers)

\* lines 15-25 of read_csv: the data lines, split and with the wrapper of the
\* last field stripped
read_csv_lines(content) ==
    LET lines == [i \in 1..Len(FileLines(content)) |->
                     split(FileLines(content)[i], 3)]
    IN  [i \in 1..(Len(lines) - 1) |->
            [lines[i + 1] EXCEPT ![Len(lines[i + 1])] =
                Slice_1_to_minus_2(lines[i + 1][Len(lines[i + 1])])]]

\* lines 20-22 of read_csv: the header line, split and stripped
read_csv_headers(content) ==
    LET headers == split(FileLines(content)[1], 3)
    IN  [headers EXCEPT ![Len(headers)] = strip(headers[Len(headers)])]

\* pd.to_numeric of the time column: the time cells of the model's files
\* are non-empty texts, numeric when made of decimal digits
to_numeric(cells) == [i \in 1..Len(cells) |-> int(cells[i])]

read_csv(content) ==
    IF Len(FileLines(content)) = 0 THEN Raise("IndexError")
    ELSE
    LET frame == NewDataFrame(read_csv_lines(content), read_csv_headers(content))
    IN  IF IsError(frame) THEN frame
        ELSE IF ~HasColumn(frame, "time") THEN Raise("KeyError")
        ELSE IF \E i \in 1..Len(frame.rows) : ~IsNumeric(Column(frame, "time")[i])
        THEN Raise("ValueError")
        ELSE IF ~HasColumn(frame, "user_name") THEN Raise("KeyError")
        ELSE LET timed == SetColumn(frame, "time",
                                    to_numeric(Column(frame, "time")))
                 names == Column(timed, "user_name")
             IN  SetColumn(timed, "user_name",
                     [i \in 1..Len(names) |->
                         IF names[i] = None THEN None ELSE lower(names[i])])

(***************************************************************************)
(* Parsing gifts/subs/bits.                                                *)
(***************************************************************************)
_GIFT_DONATION_REGEX == <<Lazy, Lit(" gifted a Tier "), D1, Lit(" sub to")>>

_get_donated_sub(msg) ==
    LET donated_tier == re_match(_GIFT_DONATION_REGEX, msg)
    IN  IF donated_tier # None THEN int(donated_tier[1]) ELSE 0

_SUBSCRIBE_PRIME_REGEX ==
    <<Lazy, Lit(" subscribed with Prime"), Dot,
      Lit(" They've subscribed for "), Dn, Lit(" months!")>>

_SUBSCRIBE_PRIME_WITHOUT_STREAK_REGEX ==
    <<Lazy, Lit(" subscribed with Prime"), Dot>>

_SUBSCRIBE_TIER_REGEX ==
    <<Lazy, Lit(" subscribed at Tier "), D1, Dot,
      Lit(" They've subscribed for "), Dn, Lit(" months, currently on a "),
      Dn, Lit(" month streak!")>>

_SUBSCRIBE_TIER_WITHOUT_STREAK_REGEX ==
    <<Lazy, Lit(" subscribed at Tier "), D1, Dot,
      Lit(" They've subscribed for "), Dn, Lit(" months!")>>

_SUBSCRIBE_TIER_FIRST_SUBSCRIPTION_REGEX ==
    <<Lazy, Lit(" subscribed at Tier "), D1, Dot>>

\* _get_subscription_type with the shorter pattern of each family tried first
_get_subscription_type_short_first(msg) ==
    LET prime == re_match(_SUBSCRIBE_PRIME_REGEX, msg)
        tier_streak == re_match(_SUBSCRIBE_TIER_REGEX, msg)
        tier_months == re_match(_SUBSCRIBE_TIER_WITHOUT_STREAK_REGEX, msg)
        tier_first == re_match(_SUBSCRIBE_TIER_FIRST_SUBSCRIPTION_REGEX, msg)
    IN  IF re_match(_SUBSCRIBE_PRIME_WITHOUT_STREAK_REGEX, msg) # None
        THEN <<"prime", 0>>
        ELSE IF prime # None THEN <<"prime", int(prime[1])>>
        ELSE IF tier_first # None
        THEN <<"tier_" \o tier_first[1], 0>>
        ELSE IF tier_streak # None
        THEN <<"tier_" \o tier_streak[1], int(tier_streak[2])>>
        ELSE IF tier_months # None
        THEN <<"tier_" \o tier_months[1], int(tier_months[2])>>
        ELSE <<"none", 0>>

\* the result is the pair <<subscription_type, subscription_months>>
_get_subscription_type(msg) ==
    LET prime == re_match(_SUBSCRIBE_PRIME_REGEX, msg)
        tier_streak == re_match(_SUBSCRIBE_TIER_REGEX, msg)
        tier_months == re_match(_SUBSCRIBE_TIER_WITHOUT_STREAK_REGEX, msg)
        tier_first == re_match(_SUBSCRIBE_TIER_FIRST_SUBSCRIPTION_REGEX, msg)
    IN  IF prime # None THEN <<"prime", int(prime[1])>>
        ELSE IF re_match(_SUBSCRIBE_PRIME_WITHOUT_STREAK_REGEX, msg) # None
        THEN <<"prime", 0>>
        ELSE IF tier_streak # None
        THEN <<"tier_" \o tier_streak[1], int(tier_streak[2])>>
        ELSE IF tier_months # None
        THEN <<"tier_" \o tier_months[1], int(tier_months[2])>>
        ELSE IF tier_first # None
        THEN <<"tier_" \o tier_first[1], 0>>
        ELSE <<"none", 0>>

\* _BITS_REGEX without the closing word boundary
_BITS_REGEX_open_end == <<Wb, Lit("Cheer"), Dn>>

_BITS_REGEX == <<Wb, Lit("Cheer"), Dn, Wb>>

_get_bits(msg) ==
    LET found == re_search(_BITS_REGEX, msg)
    IN  IF found # None THEN int(found[1]) ELSE 0

(***************************************************************************)
(* Numbers.  A Python float is modelled by the exact fraction [num, den]   *)
(* of two naturals, in lowest terms; den = 0 is the result of dividing a   *)
(* numpy float by zero: inf when num > 0, nan when num = 0.                *)
(***************************************************************************)
RECURSIVE GCD(_, _)
GCD(a, b) == IF b = 0 THEN a ELSE GCD(b, a % b)

Frac(n, d) ==
    IF GCD(n, d) = 0 THEN [num |-> 0, den |-> 0]
    ELSE [num |-> n \div GCD(n, d), den |-> d \div GCD(n, d)]

IsInf(x) == x.den = 0 /\ x.num # 0
IsNaN(x) == x.den = 0 /\ x.num = 0
IsFinite(x) == x.den # 0

FracAdd(x, y) == Frac(x.num * y.den + y.num * x.den, x.den * y.den)

FracMul(x, y) == Frac(x.num * y.num, x.den * y.den)

\* x / y of numpy floats, x >= 0 finite and y >= 0 finite: a warning and
\* inf or nan, not an exception, when y is zero
FloatDiv(x, y) ==
    IF y.num = 0 THEN (IF x.num = 0 THEN Frac(0, 0) ELSE Frac(1, 0))
    ELSE Frac(x.num * y.den, x.den * y.num)

\* round(x, 1): the nearest multiple of 0.1, the even one of two equally near
round1(x) ==
    LET tenths == (10 * x.num) \div x.den
        rem == (10 * x.num) % x.den
    IN  IF 2 * rem < x.den THEN Frac(tenths, 10)
        ELSE IF 2 * rem > x.den THEN Frac(tenths + 1, 10)
        ELSE IF tenths % 2 = 0 THEN Frac(tenths, 10)
        ELSE Frac(tenths + 1, 10)

(***************************************************************************)
(* Simple Statistics.                                                      *)
(***************************************************************************)
\* len(df.user_name.unique())
unique_users(frame) == Cardinality(Values(Column(frame, "user_name")))

\* num_messages / num_users of two Python ints
num_messages_per_user(frame) ==
    IF unique_users(frame) = 0 THEN Raise("ZeroDivisionError")
    ELSE Frac(Len(frame.rows), unique_users(frame))

stream_time_in_seconds(frame) == Max(Values(Column(frame, "time")))

(***************************************************************************)
(* The derived columns.                                                    *)
(***************************************************************************)
\* re.Pattern.match(None) raises TypeError
HasNoneMessage(frame) ==
    \E i \in 1..Len(frame.rows) : Column(frame, "message")[i] = None

add_column_sub_gifts(frame) ==
    IF IsError(frame) THEN frame
    ELSE IF ~HasColumn(frame, "message") THEN Raise("KeyError")
    ELSE IF HasNoneMessage(frame) THEN Raise("TypeError")
    ELSE SetColumn(frame, "donated_sub",
             [i \in 1..Len(frame.rows) |->
                 _get_donated_sub(Column(frame, "message")[i])])

\* zip(*...) of no row yields nothing to unpack into the two columns
add_column_subscriptions(frame) ==
    IF IsError(frame) THEN frame
    ELSE IF Len(frame.rows) = 0 THEN Raise("ValueError")
    ELSE SetColumn(
             SetColumn(frame, "subscription_type",
                 [i \in 1..Len(frame.rows) |->
                     _get_subscription_type(Column(frame, "message")[i])[1]]),
             "subscription_months",
             [i \in 1..Len(frame.rows) |->
                 _get_subscription_type(Column(frame, "message")[i])[2]])

add_column_bits(frame) ==
    IF IsError(frame) THEN frame
    ELSE SetColumn(frame, "bits",
             [i \in 1..Len(frame.rows) |->
                 _get_bits(Column(frame, "message")[i])])

\* lines 97-100 of get_stream_summary: the table with its derived columns;
\* what a step raises is what the steps after it return
classified(content) ==
    add_column_bits(add_column_subscriptions(add_column_sub_gifts(
        read_csv(content))))

(***************************************************************************)
(* The revenue model.                                                      *)
(***************************************************************************)
_PRICE_TIER_1 == 5
_PRICE_TIER_2 == 10
_PRICE_TIER_3 == 25
_PRICE_PRIME == _PRICE_TIER_1
_PRICE_BITS == Frac(1, 100)

\* calculate_revenue with the bits halved like the subscriptions
calculate_revenue_all_halved(result_) ==
    LET subscriptions_cost ==
            result_.donated_tier_1 * _PRICE_TIER_1 +
            result_.donated_tier_2 * _PRICE_TIER_2 +
            result_.donated_tier_3 * _PRICE_TIER_3 +
            result_.subscribed_prime * _PRICE_PRIME +
            result_.subscribed_tier_1 * _PRICE_TIER_1 +
            result_.subscribed_tier_2 * _PRICE_TIER_2 +
            result_.subscribed_tier_3 * _PRICE_TIER_3
    IN  FracMul(FracAdd(Frac(subscriptions_cost, 1),
                        FracMul(Frac(result_.total_bits, 1), _PRICE_BITS)),
                Frac(1, 2))

calculate_revenue(result_) ==
    LET subscriptions_cost ==
            result_.donated_tier_1 * _PRICE_TIER_1 +
            result_.donated_tier_2 * _PRICE_TIER_2 +
            result_.donated_tier_3 * _PRICE_TIER_3 +
            result_.subscribed_prime * _PRICE_PRIME +
            result_.subscribed_tier_1 * _PRICE_TIER_1 +
            result_.subscribed_tier_2 * _PRICE_TIER_2 +
            result_.subscribed_tier_3 * _PRICE_TIER_3
    IN  FracAdd(Frac(subscriptions_cost, 2),
                FracMul(Frac(result_.total_bits, 1), _PRICE_BITS))

(***************************************************************************)
(* Grouping it all.                                                        *)
(***************************************************************************)
_CHAT_ID_REGEX == <<Lit("twitch-chat-"), Dn, Lit("_")>>

\* df[column].value_counts().get(value, 0)
value_count(frame, column, value) == Count(Column(frame, column), value)

\* line 128 with the rounded field of the record as the divisor
revenue_per_hour_of_field(result_, stream_time_in_hours) ==
    FloatDiv(result_.revenue, result_.stream_time_in_hours)

\* line 128: result["revenue"] / stream_time_in_hours, the local variable of
\* line 105, which is not rounded
revenue_per_hour(result_, stream_time_in_hours) ==
    FloatDiv(result_.revenue, stream_time_in_hours)

\* line 129: result["revenue"] / result["unique_users"]
revenue_per_user(result_) ==
    FloatDiv(result_.revenue, Frac(result_.unique_users, 1))

\* lines 102-131 of get_stream_summary, for a table with its derived columns;
\* what lines 97-100 raised is raised
stream_summary(file_name, frame) ==
    LET chat_id == re_search(_CHAT_ID_REGEX, file_name)
        stream_time_in_hours == Frac(stream_time_in_seconds(frame), 3600)
        counted ==
            [chat_id |-> chat_id[1],
             messages_per_user |-> round1(num_messages_per_user(frame)),
             stream_time_in_hours |-> round1(stream_time_in_hours),
             unique_users |-> unique_users(frame),
             total_messages |-> Len(frame.rows),
             donated_tier_1 |-> value_count(frame, "donated_sub", 1),
             donated_tier_2 |-> value_count(frame, "donated_sub", 2),
             donated_tier_3 |-> value_count(frame, "donated_sub", 3),
             subscribed_prime |-> value_count(frame, "subscription_type", "prime"),
             subscribed_tier_1 |-> value_count(frame, "subscription_type", "tier_1"),
             subscribed_tier_2 |-> value_count(frame, "subscription_type", "tier_2"),
             subscribed_tier_3 |-> value_count(frame, "subscription_type", "tier_3"),
             total_bits |-> Sum(Column(frame, "bits"))]
        priced == counted @@ [revenue |-> calculate_revenue(counted)]
    IN  IF IsError(frame) THEN frame
        ELSE IF chat_id = None THEN Raise("AttributeError")
        ELSE IF IsError(num_messages_per_user(frame))
        THEN num_messages_per_user(frame)
        ELSE priced @@
             [revenue_per_hour |-> revenue_per_hour(priced, stream_time_in_hours),
              revenue_per_user |-> revenue_per_user(priced)]

\* get_stream_summary(file_path), file_path a file with its name and content
get_stream_summary(file) ==
    stream_summary(file.name, classified(file.content))

(***************************************************************************)
(* The classifiers applied to one message, as add_column_sub_gifts,        *)
(* add_column_subscriptions and add_column_bits apply them to each row.    *)
(***************************************************************************)
NoMessage ==
    /\ message = ""
    /\ nparts = 0
    /\ donated_sub = 0
    /\ subscription_type = "none"
    /\ subscription_months = 0
    /\ bits = 0

NoStream ==
    /\ file_content = ""
    /\ written = <<>>
    /\ df = [nothing |-> TRUE]
    /\ result = [nothing |-> TRUE]

NoBatch ==
    /\ folders = <<>>
    /\ files = <<>>
    /\ summary = <<>>
    /\ tables = <<>>
    /\ table = [nothing |-> TRUE]
    /\ discovered = <<>>

InitMessage ==
    /\ pc = "message"
    /\ NoMessage
    /\ NoStream
    /\ NoBatch

SubscriptionText ==
    {"X", " subscribed with Prime", " subscribed at Tier 2", ".",
     " They've subscribed for 12 months!",
     " They've subscribed for 5 months, currently on a 3 month streak!",
     " They've subscribed for 7 months"}

CheerText == {"Cheer50", "Cheer75", "Cheer", "x", " ", "5", "!"}

AppendSubscriptionText ==
    /\ pc = "message"
    /\ nparts < MaxSubParts
    /\ \E t \in SubscriptionText : message' = message \o t
    /\ nparts' = nparts + 1
    /\ UNCHANGED <<pc, donated_sub, subscription_type, subscription_months, bits>>
    /\ UNCHANGED stream_vars
    /\ UNCHANGED batch_vars

AppendCheerText ==
    /\ pc = "message"
    /\ nparts < MaxCheerParts
    /\ \E t \in CheerText : message' = message \o t
    /\ nparts' = nparts + 1
    /\ UNCHANGED <<pc, donated_sub, subscription_type, subscription_months, bits>>
    /\ UNCHANGED stream_vars
    /\ UNCHANGED batch_vars

Classify ==
    /\ pc = "message"
    /\ donated_sub' = _get_donated_sub(message)
    /\ subscription_type' = _get_subscription_type(message)[1]
    /\ subscription_months' = _get_subscription_type(message)[2]
    /\ bits' = _get_bits(message)
    /\ pc' = "classified"
    /\ UNCHANGED <<message, nparts>>
    /\ UNCHANGED stream_vars
    /\ UNCHANGED batch_vars

NextSubscription == AppendSubscriptionText \/ Classify
SpecSubscription == InitMessage /\ [][NextSubscription]_vars

NextBits == AppendCheerText \/ Classify
SpecBits == InitMessage /\ [][NextBits]_vars

(***************************************************************************)
(* One chat-log file written line by line, then read and summarised.       *)
(***************************************************************************)
Nothing == [nothing |-> TRUE]

IsTable(x) == "rows" \in DOMAIN x

IsSummary(x) == "chat_id" \in DOMAIN x

HeaderLine == "time,user_name,user_color,message\n"

StreamFileName == "twitch-chat-123_stream.csv"

\* the chat events of the model's files
ChatEvents ==
    {[time |-> "0", user_name |-> "Bob", user_color |-> "#FF0000",
      message |-> "hello, world"],
     [time |-> "3700", user_name |-> "bob", user_color |-> "#FF0000",
      message |-> "gg Cheer100"],
     [time |-> "3700", user_name |-> "amy", user_color |-> "",
      message |-> "amy gifted a Tier 1 sub to Bob"],
     [time |-> "7200", user_name |-> "amy", user_color |-> "",
      message |-> "amy gifted a Tier 9 sub to Bob"],
     [time |-> "7200", user_name |-> "Zed", user_color |-> "#0000FF",
      message |-> "Zed subscribed with Prime. They've subscribed for 3 months!"],
     [time |-> "7200", user_name |-> "zed", user_color |-> "#0000FF",
      message |-> "zed subscribed at Tier 2."],
     [time |-> "soon", user_name |-> "bob", user_color |-> "#FF0000",
      message |-> "brb"]}

\* a line with too few fields
ShortEvent ==
    [time |-> "12", user_name |-> "bob", user_color |-> None, message |-> None]

\* the line of the export for a chat event: the message is wrapped in quotes
FormatLine(e) ==
    e.time \o "," \o e.user_name \o "," \o e.user_color
           \o ",\"" \o e.message \o "\""

InitStream ==
    /\ pc = "writing"
    /\ NoMessage
    /\ NoBatch
    /\ file_content = HeaderLine
    /\ written = <<>>
    /\ df = Nothing
    /\ result = Nothing

\* a line of the export, ended by its newline
WriteLine ==
    /\ pc = "writing"
    /\ Len(written) < MaxLines
    /\ \E e \in ChatEvents :
          /\ file_content' = file_content \o FormatLine(e) \o "\n"
          /\ written' = Append(written, e)
    /\ UNCHANGED <<pc, df, result>>
    /\ UNCHANGED message_vars
    /\ UNCHANGED batch_vars

\* the last line of a file that ends without a newline
WriteLastLine ==
    /\ pc = "writing"
    /\ Len(written) < MaxLines
    /\ \E e \in ChatEvents :
          /\ file_content' = file_content \o FormatLine(e)
          /\ written' = Append(written, e)
    /\ pc' = "closed"
    /\ UNCHANGED <<df, result>>
    /\ UNCHANGED message_vars
    /\ UNCHANGED batch_vars

\* a line cut after its second field
WriteShortLine ==
    /\ pc = "writing"
    /\ Len(written) < MaxLines
    /\ file_content' = file_content \o ShortEvent.time \o ","
                                    \o ShortEvent.user_name \o "\n"
    /\ written' = Append(written, ShortEvent)
    /\ UNCHANGED <<pc, df, result>>
    /\ UNCHANGED message_vars
    /\ UNCHANGED batch_vars

\* get_stream_summary(file_path) on the file written so far
Summarize ==
    /\ pc \in {"writing", "closed"}
    /\ df' = classified(file_content)
    /\ result' = get_stream_summary([name |-> StreamFileName,
                                     content |-> file_content])
    /\ pc' = "summarized"
    /\ UNCHANGED <<file_content, written>>
    /\ UNCHANGED message_vars
    /\ UNCHANGED batch_vars

NextStream == WriteLine \/ WriteLastLine \/ WriteShortLine \/ Summarize
SpecStream == InitStream /\ [][NextStream]_vars

(***************************************************************************)
(* The rows and the summary of one file.                                   *)
(***************************************************************************)
Cell(i, name) == Column(df, name)[i]

Rows == 1..Len(df.rows)

\* the largest time written to the file
MaxTimeWritten == Max({int(written[i].time) : i \in 1..Len(written)})

SubscriptionTypes == {"none", "prime", "tier_1", "tier_2", "tier_3"}

\* C3: every classified row has its derived fields inside the declared
\* domains: the gift tier in 0..3, the subscription type one of none, prime,
\* tier_1, tier_2, tier_3, the months and the bits natural numbers; the gift
\* tier is N in 1..3 when the message matches the gifted-sub pattern at its
\* start and 0 otherwise.
C3_DerivedFieldsInDomain ==
    (pc = "summarized" /\ IsTable(df)) =>
        \A i \in Rows :
            /\ Cell(i, "donated_sub") \in 0..3
            /\ Cell(i, "subscription_type") \in SubscriptionTypes
            /\ Cell(i, "subscription_months") \in Nat
            /\ Cell(i, "bits") \in Nat
            /\ IF re_match(_GIFT_DONATION_REGEX, Cell(i, "message")) # None
               THEN Cell(i, "donated_sub") \in 1..3
               ELSE Cell(i, "donated_sub") = 0

\* C2: a stream with no data row or whose largest time is 0 makes
\* get_stream_summary fail; no summary record holds an infinite or NaN
\* messages_per_user, revenue_per_hour or revenue_per_user.
C2_ZeroDenominatorFails ==
    pc = "summarized" =>
        /\ (written = <<>> \/ \A i \in 1..Len(written) : written[i].time = "0")
              => IsError(result)
        /\ IsSummary(result) =>
              /\ IsFinite(result.messages_per_user)
              /\ IsFinite(result.revenue_per_hour)
              /\ IsFinite(result.revenue_per_user)

\* C6: every data line is split on its first 3 commas only, so the row has at
\* most 4 fields and the commas of the message are kept; the parsed message
\* is the text that was wrapped in the quotes, with no character lost, on the
\* last line of the file too; the rows are in file order, user_name lowercased.
C6_MessageUnwrapped ==
    (pc = "summarized" /\ IsTable(df)) =>
        /\ Len(df.rows) = Len(written)
        /\ \A i \in Rows :
              /\ Len(read_csv_lines(file_content)[i]) <= 4
              /\ Cell(i, "message") = written[i].message
              /\ Cell(i, "user_name") = lower(written[i].user_name)
              /\ Cell(i, "time") = int(written[i].time)

\* x and y are the same float value
SameFloat(x, y) ==
    \/ IsNaN(x) /\ IsNaN(y)
    \/ IsInf(x) /\ IsInf(y)
    \/ IsFinite(x) /\ IsFinite(y) /\ x.num * y.den = y.num * x.den

\* C7 as stated: revenue_per_hour is the revenue of the record divided by
\* the stream_time_in_hours field of the record, revenue_per_user the revenue
\* divided by the unique_users field.
C7_RatiosOfRecordFields ==
    (pc = "summarized" /\ IsSummary(result)) =>
        /\ SameFloat(result.revenue_per_hour,
                     FloatDiv(result.revenue, result.stream_time_in_hours))
        /\ SameFloat(result.revenue_per_user,
                     FloatDiv(result.revenue, Frac(result.unique_users, 1)))

\* C7 amended: revenue_per_hour is the revenue of the record divided by the
\* unrounded stream time, the largest time / 3600 (inf or nan when that time
\* is 0), of which the stream_time_in_hours field is the rounding to one
\* decimal; revenue_per_user is the revenue divided by the unique_users field.
C7_RatiosOfUnroundedTime ==
    (pc = "summarized" /\ IsSummary(result)) =>
        /\ IF MaxTimeWritten = 0
           THEN /\ ~IsFinite(result.revenue_per_hour)
                /\ IsNaN(result.revenue_per_hour) <=> result.revenue.num = 0
           ELSE /\ IsFinite(result.revenue_per_hour)
                /\ result.revenue_per_hour.num * result.revenue.den * MaxTimeWritten
                     = result.revenue.num * 3600 * result.revenue_per_hour.den
        /\ (10 * result.stream_time_in_hours.num)
              % result.stream_time_in_hours.den = 0
        /\ LET off == 3600 * result.stream_time_in_hours.num
                         - MaxTimeWritten * result.stream_time_in_hours.den
           IN  /\ off <= 180 * result.stream_time_in_hours.den
               /\ -off <= 180 * result.stream_time_in_hours.den
        /\ result.unique_users > 0
        /\ result.revenue_per_user.num * result.revenue.den * result.unique_users
              = result.revenue.num * result.revenue_per_user.den

\* a summary with revenue whose stream time, 3700 s, is rounded to 1.0 hour
C7_Witness ==
    /\ pc = "summarized"
    /\ IsSummary(result)
    /\ MaxTimeWritten = 3700
    /\ result.revenue.num > 0
    /\ result.stream_time_in_hours = Frac(1, 1)
    /\ ~SameFloat(result.revenue_per_hour,
                  FloatDiv(result.revenue, result.stream_time_in_hours))

\* the number of rows of the table whose cell of the column satisfies Test
CountRows(name, Test(_)) == Cardinality({i \in Rows : Test(Cell(i, name))})

\* C10: the tallies of the summary equal the per-row classifier results: the
\* donated and subscribed counts count the rows of that gift tier and of that
\* subscription type, total_bits sums the bits, total_messages counts the
\* rows, unique_users the distinct lowercased names; the seven counts add up
\* to the rows with a gift tier other than 0 plus the rows with a
\* subscription type other than none.
C10_TalliesMatchRows ==
    (pc = "summarized" /\ IsSummary(result)) =>
        /\ result.donated_tier_1 = CountRows("donated_sub", LAMBDA v : v = 1)
        /\ result.donated_tier_2 = CountRows("donated_sub", LAMBDA v : v = 2)
        /\ result.donated_tier_3 = CountRows("donated_sub", LAMBDA v : v = 3)
        /\ result.subscribed_prime
              = CountRows("subscription_type", LAMBDA v : v = "prime")
        /\ result.subscribed_tier_1
              = CountRows("subscription_type", LAMBDA v : v = "tier_1")
        /\ result.subscribed_tier_2
              = CountRows("subscription_type", LAMBDA v : v = "tier_2")
        /\ result.subscribed_tier_3
              = CountRows("subscription_type", LAMBDA v : v = "tier_3")
        /\ result.total_bits = Sum(Column(df, "bits"))
        /\ result.total_messages = Len(written)
        /\ result.unique_users
              = Cardinality({lower(written[i].user_name) : i \in 1..Len(written)})
        /\ result.donated_tier_1 + result.donated_tier_2 + result.donated_tier_3
             + result.subscribed_prime + result.subscribed_tier_1
             + result.subscribed_tier_2 + result.subscribed_tier_3
              = CountRows("donated_sub", LAMBDA v : v # 0)
                  + CountRows("subscription_type", LAMBDA v : v # "none")

(***************************************************************************)
(* The revenue model applied to the counts of a summary.                   *)
(***************************************************************************)
BitsAmounts == {0, 1, 100}

InitRevenue ==
    /\ pc = "counted"
    /\ NoMessage
    /\ NoBatch
    /\ file_content = ""
    /\ written = <<>>
    /\ df = Nothing
    /\ result \in [donated_tier_1 : 0..MaxCount,
                   donated_tier_2 : 0..MaxCount,
                   donated_tier_3 : 0..MaxCount,
                   subscribed_prime : 0..MaxCount,
                   subscribed_tier_1 : 0..MaxCount,
                   subscribed_tier_2 : 0..MaxCount,
                   subscribed_tier_3 : 0..MaxCount,
                   total_bits : BitsAmounts]

\* line 126: result["revenue"] = calculate_revenue(result)
CalculateRevenue ==
    /\ pc = "counted"
    /\ result' = result @@ [revenue |-> calculate_revenue(result)]
    /\ pc' = "priced"
    /\ UNCHANGED <<file_content, written, df>>
    /\ UNCHANGED message_vars
    /\ UNCHANGED batch_vars

NextRevenue == CalculateRevenue
SpecRevenue == InitRevenue /\ [][NextRevenue]_vars

\* C8: the revenue is (5*donated_tier_1 + 10*donated_tier_2 +
\* 25*donated_tier_3 + 5*subscribed_prime + 5*subscribed_tier_1 +
\* 10*subscribed_tier_2 + 25*subscribed_tier_3) / 2 + 0.01*total_bits: the
\* subscriptions are halved, the bits are added unhalved; 2 gifted tier_1,
\* 1 prime and 100 bits give 8.5.
C8_RevenueFormula ==
    pc = "priced" =>
        /\ IsFinite(result.revenue)
        /\ 200 * result.revenue.num
              = result.revenue.den *
                  (100 * (5 * result.donated_tier_1 + 10 * result.donated_tier_2
                            + 25 * result.donated_tier_3 + 5 * result.subscribed_prime
                            + 5 * result.subscribed_tier_1
                            + 10 * result.subscribed_tier_2
                            + 25 * result.subscribed_tier_3)
                     + 2 * result.total_bits)
        /\ (/\ result.donated_tier_1 = 2 /\ result.subscribed_prime = 1
            /\ result.total_bits = 100
            /\ result.donated_tier_2 = 0 /\ result.donated_tier_3 = 0
            /\ result.subscribed_tier_1 = 0 /\ result.subscribed_tier_2 = 0
            /\ result.subscribed_tier_3 = 0)
              => 2 * result.revenue.num = 17 * result.revenue.den

\* the revenue of 2 gifted tier_1, 1 prime and 100 bits has been computed
C8_Witness ==
    /\ pc = "priced"
    /\ result.donated_tier_1 = 2 /\ result.subscribed_prime = 1
    /\ result.total_bits = 100
    /\ result.donated_tier_2 = 0 /\ result.donated_tier_3 = 0
    /\ result.subscribed_tier_1 = 0 /\ result.subscribed_tier_2 = 0
    /\ result.subscribed_tier_3 = 0
    /\ result.revenue = [num |-> 17, den |-> 2]

(***************************************************************************)
(* The batch aggregator.  The file system of the model: the folders, the   *)
(* files directly in each of them, and their sub-folders.                  *)
(***************************************************************************)
GoodLines ==
    "0,Bob,#FF0000,\"hello, world\"\n"
        \o "7200,amy,,\"amy gifted a Tier 1 sub to Bob\"\n"

AllFiles ==
    {[path |-> "chats/twitch-chat-101_monday.csv",
      content |-> HeaderLine \o GoodLines],
     [path |-> "chats/2023/twitch-chat-202_tuesday.csv",
      content |-> HeaderLine \o "3700,Zed,#0000FF,\"gg Cheer100\"\n"],
     [path |-> "drafts/twitch-chat-303_ok.csv",
      content |-> HeaderLine \o GoodLines],
     [path |-> "drafts/twitch-chat-404_time.csv",
      content |-> HeaderLine \o "soon,bob,#FF0000,\"brb\"\n"],
     [path |-> "cut/twitch-chat-505_short.csv",
      content |-> HeaderLine \o GoodLines \o "12,bob\n"],
     [path |-> "notes/chat-notes.csv",
      content |-> HeaderLine \o GoodLines]}

Folders == {"chats", "chats/2023", "drafts", "cut", "notes", "empty"}

\* the folder a file or a folder is directly in
Parent(path) ==
    LET slashes == {i \in 1..Len(path) : Char(path, i) = "/"}
    IN  IF slashes = {} THEN "" ELSE SubSeq(path, 1, Max(slashes) - 1)

\* Path.name: the last component of the path
PathName(path) ==
    LET slashes == {i \in 1..Len(path) : Char(path, i) = "/"}
    IN  IF slashes = {} THEN path ELSE SubSeq(path, Max(slashes) + 1, Len(path))

\* Path(folder).glob("*.csv"): the files directly in the folder only
glob(folder) == {f \in AllFiles : Parent(f.path) = folder}

\* Path(folder).rglob("*.csv"): the files in the folder and, recursively, in
\* its sub-folders
RECURSIVE rglob(_)
rglob(folder) ==
    {f \in AllFiles : Parent(f.path) = folder}
        \cup UNION {rglob(sub) : sub \in {d \in Folders : Parent(d) = folder}}

\* the orders in which the file system may yield a set of files
Orders(S) ==
    {s \in [1..Cardinality(S) -> S] :
        \A i, j \in 1..Cardinality(S) : i # j => s[i] # s[j]}

\* the lists of at most n folders
RECURSIVE FolderLists(_)
FolderLists(n) ==
    IF n = 0 THEN {<<>>}
    ELSE FolderLists(n - 1)
           \cup {Append(l, d) : l \in FolderLists(n - 1), d \in Folders}

\* pd.concat(tables): the rows of the tables one table after the other; no
\* table to concatenate is a ValueError
RECURSIVE concat(_)
concat(frames) ==
    IF Len(frames) = 0 THEN Raise("ValueError")
    ELSE IF Len(frames) = 1 THEN frames[1]
    ELSE [rows |-> concat(SubSeq(frames, 1, Len(frames) - 1)).rows
                       \o frames[Len(frames)].rows]

file_summary(f) ==
    get_stream_summary([name |-> PathName(f.path), content |-> f.content])

InitBatch ==
    /\ pc = "folder"
    /\ NoMessage
    /\ NoStream
    /\ folders \in FolderLists(MaxFolders)
    /\ files = <<>>
    /\ summary = <<>>
    /\ tables = <<>>
    /\ table = Nothing
    /\ discovered = <<>>

\* line 155: files = list(Path(folder).rglob("*.csv")) for the next folder
ListFiles ==
    /\ pc = "folder"
    /\ Len(tables) < Len(folders)
    /\ files' \in Orders(rglob(folders[Len(tables) + 1]))
    /\ discovered' = discovered \o files'
    /\ summary' = <<>>
    /\ pc' = "files"
    /\ UNCHANGED <<folders, tables, table>>
    /\ UNCHANGED message_vars
    /\ UNCHANGED stream_vars

\* line 156 with a file that raises left out of the summary
SummarizeFile_skip_failed ==
    /\ pc = "files"
    /\ files # <<>>
    /\ LET returned == file_summary(Head(files))
       IN  IF IsError(returned)
           THEN UNCHANGED summary
           ELSE summary' = Append(summary, returned)
    /\ files' = Tail(files)
    /\ UNCHANGED <<pc, folders, tables, table, discovered>>
    /\ UNCHANGED message_vars
    /\ UNCHANGED stream_vars

\* line 156: get_stream_summary(file) for the next file of the folder; what
\* it raises ends the run
SummarizeFile ==
    /\ pc = "files"
    /\ files # <<>>
    /\ LET returned == file_summary(Head(files))
       IN  IF IsError(returned)
           THEN /\ table' = returned
                /\ pc' = "failed"
                /\ UNCHANGED <<files, summary>>
           ELSE /\ summary' = Append(summary, returned)
                /\ files' = Tail(files)
                /\ UNCHANGED <<pc, table>>
    /\ UNCHANGED <<folders, tables, discovered>>
    /\ UNCHANGED message_vars
    /\ UNCHANGED stream_vars

\* line 157: return pd.DataFrame(summary)
FolderTable ==
    /\ pc = "files"
    /\ files = <<>>
    /\ tables' = Append(tables, [rows |-> summary])
    /\ pc' = "folder"
    /\ UNCHANGED <<folders, files, summary, table, discovered>>
    /\ UNCHANGED message_vars
    /\ UNCHANGED stream_vars

\* line 160: return pd.concat([...]) of the tables of all the folders
Concat ==
    /\ pc = "folder"
    /\ Len(tables) = Len(folders)
    /\ table' = concat(tables)
    /\ pc' = IF IsError(concat(tables)) THEN "failed" ELSE "done"
    /\ UNCHANGED <<folders, files, summary, tables, discovered>>
    /\ UNCHANGED message_vars
    /\ UNCHANGED stream_vars

NextBatch == ListFiles \/ SummarizeFile \/ FolderTable \/ Concat
SpecBatch == InitBatch /\ [][NextBatch]_vars

\* the files under a folder, by their paths
IsPrefix(p, s) == Len(p) <= Len(s) /\ SubSeq(s, 1, Len(p)) = p

FilesUnder(folder) == {f \in AllFiles : IsPrefix(folder \o "/", f.path)}

\* the id in the name of each file of the model
ExpectedChatId(f) ==
    CASE f.path = "chats/twitch-chat-101_monday.csv" -> "101"
      [] f.path = "chats/2023/twitch-chat-202_tuesday.csv" -> "202"
      [] f.path = "drafts/twitch-chat-303_ok.csv" -> "303"
      [] f.path = "drafts/twitch-chat-404_time.csv" -> "404"
      [] f.path = "cut/twitch-chat-505_short.csv" -> "505"
      [] OTHER -> None

\* the files whose processing raises: a time that is no number, a row with
\* too few fields, a name without twitch-chat-<digits>_
FailingFiles ==
    {f \in AllFiles : f.path \in {"drafts/twitch-chat-404_time.csv",
                                  "cut/twitch-chat-505_short.csv",
                                  "notes/chat-notes.csv"}}

GivenFiles == UNION {FilesUnder(folders[i]) : i \in 1..Len(folders)}

\* the number of rows before those of folder i
RECURSIVE RowsBefore(_)
RowsBefore(i) ==
    IF i = 1 THEN 0
    ELSE RowsBefore(i - 1) + Cardinality(FilesUnder(folders[i - 1]))

\* the table has one row per discovered file, folder by folder in the order
\* given and within a folder in the order of discovery
OneRowPerFile ==
    /\ pc = "done"
    /\ IsTable(table)
    /\ Len(table.rows) = RowsBefore(Len(folders) + 1)
    /\ Len(table.rows) = Len(discovered)
    /\ \A r \in 1..Len(table.rows) :
          table.rows[r].chat_id = ExpectedChatId(discovered[r])
    /\ \A i \in 1..Len(folders) :
          {discovered[r] : r \in (RowsBefore(i) + 1)..RowsBefore(i + 1)}
              = FilesUnder(folders[i])

Ended == pc \in {"done", "failed"}

C4_ErrorEndsBatch ==
    /\ (Ended /\ GivenFiles \cap FailingFiles # {}) =>
          /\ pc = "failed"
          /\ IsError(table)
          /\ Head(files) \in FailingFiles
    /\ pc = "done" => IsTable(table) /\ Len(table.rows) = Len(discovered)
    /\ \A i \in 1..Len(summary) : IsSummary(summary[i])
    /\ GivenFiles \cap FailingFiles # {} => ~IsTable(table)

\* a run that failed on a file after it had summarised another
C4_Witness ==
    /\ pc = "failed"
    /\ IsError(table)
    /\ summary # <<>>
    /\ Head(files).path = "drafts/twitch-chat-404_time.csv"

(***************************************************************************)
(* The subscription classifier.                                            *)
(***************************************************************************)
SubscriptionPatterns ==
    <<_SUBSCRIBE_PRIME_REGEX,
      _SUBSCRIBE_PRIME_WITHOUT_STREAK_REGEX,
      _SUBSCRIBE_TIER_REGEX,
      _SUBSCRIBE_TIER_WITHOUT_STREAK_REGEX,
      _SUBSCRIBE_TIER_FIRST_SUBSCRIPTION_REGEX>>

\* the patterns, by their number in the list, that match msg at its start
MatchingPatterns(msg) ==
    {i \in 1..5 : re_match(SubscriptionPatterns[i], msg) # None}

\* the result of the first pattern of the list that matches
FirstPatternResult(msg) ==
    IF MatchingPatterns(msg) = {} THEN <<"none", 0>>
    ELSE LET i == Min(MatchingPatterns(msg))
             g == re_match(SubscriptionPatterns[i], msg)
         IN  CASE i = 1 -> <<"prime", int(g[1])>>
               [] i = 2 -> <<"prime", 0>>
               [] i = 3 -> <<"tier_" \o g[1], int(g[2])>>
               [] i = 4 -> <<"tier_" \o g[1], int(g[2])>>
               [] i = 5 -> <<"tier_" \o g[1], 0>>

SubscriptionIs(type, months) ==
    subscription_type = type /\ subscription_months = months

\* C1: the subscription classifier returns the result of the first of the
\* five patterns, in the listed order, that matches at the start of the
\* message, and (none, 0) when none matches; a message with the longer
\* clauses is classified by the longer pattern: the tenure M is kept, the
\* streak is discarded.
C1_FirstPatternWins ==
    pc = "classified" =>
        /\ <<subscription_type, subscription_months>> = FirstPatternResult(message)
        /\ message = "X subscribed with Prime. They've subscribed for 12 months!"
               => SubscriptionIs("prime", 12)
        /\ message = "X subscribed with Prime."
               => SubscriptionIs("prime", 0)
        /\ message = "X subscribed at Tier 2. They've subscribed for 5 months, currently on a 3 month streak!"
               => SubscriptionIs("tier_2", 5)
        /\ message = "X subscribed at Tier 2. They've subscribed for 12 months!"
               => SubscriptionIs("tier_2", 12)
        /\ message = "X subscribed at Tier 2."
               => SubscriptionIs("tier_2", 0)
        /\ message \in {"", "X", "X subscribed at Tier 2", " They've subscribed for 12 months!"}
               => SubscriptionIs("none", 0)

\* a message that the streak pattern and the two shorter Tier patterns all
\* match has been classified with its tenure
C1_Witness ==
    /\ pc = "classified"
    /\ message = "X subscribed at Tier 2. They've subscribed for 5 months, currently on a 3 month streak!"
    /\ MatchingPatterns(message) = {3, 5}
    /\ SubscriptionIs("tier_2", 5)

(***************************************************************************)
(* The bits classifier.                                                    *)
(***************************************************************************)
\* the tokens CheerN of msg, as <<first, last>> positions: the text Cheer,
\* then digits only, with no word character right before or right after
CheerTokens(msg) ==
    {t \in (1..Len(msg)) \X (1..Len(msg)) :
        /\ t[1] + 5 <= t[2]
        /\ SubSeq(msg, t[1], t[1] + 4) = "Cheer"
        /\ \A k \in (t[1] + 5)..t[2] : Char(msg, k) \in Digit
        /\ ~IsWordAt(msg, t[1] - 1)
        /\ ~IsWordAt(msg, t[2] + 1)}

FirstCheerAmount(msg) ==
    IF CheerTokens(msg) = {} THEN 0
    ELSE LET t == CHOOSE u \in CheerTokens(msg) :
                      \A v \in CheerTokens(msg) : u[1] <= v[1]
         IN  int(SubSeq(msg, t[1] + 5, t[2]))

\* C9: the bits classifier returns the amount of the first token CheerN that
\* stands between word boundaries anywhere in the message, 0 when there is
\* none; a second token is not added, a token glued to word characters is
\* not counted.
C9_FirstCheerToken ==
    pc = "classified" =>
        /\ bits = FirstCheerAmount(message)
        /\ message = "Cheer50 Cheer75" => bits = 50
        /\ message = "! Cheer75!" => bits = 75
        /\ message \in {"xCheer50", "Cheer50x", "Cheer", "Cheer 5"} => bits = 0

\* a message with two tokens has been classified with the first amount only
C9_Witness ==
    /\ pc = "classified"
    /\ message = "Cheer50 Cheer75"
    /\ Cardinality(CheerTokens(message)) = 2
    /\ bits = 50

====
